---- MODULE Spec2Model ----
(***************************************************************************)
(* BerryMedPulseOximeterService.values                                     *)
(* (src/adafruit_ble_berrymed_pulse_oximeter/__init__.py, lines 96-153):   *)
(* one read of the `values` property pulls a header byte and a 4-byte body *)
(* from the transparent-UART receive buffer and decodes a                  *)
(* PulseOximeterValues namedtuple, or returns None.                        *)
(*                                                                         *)
(* Program state: the transport's receive buffer `buf`.  Every other       *)
(* variable is a history (ghost) variable recording what the last step     *)
(* did, so that the properties below are state predicates.                 *)
(***************************************************************************)
EXTENDS Integers, Sequences, FiniteSets, TLC

VARIABLES
    buf,      \* bytes buffered by the transport, oldest first
    pre,      \* history: buf before the last step
    ret,      \* history: what the last step returned, if it was a read of `values`
    op,       \* history: the last step, "init" | "arrive" | "values"
    last,     \* history: which return statement the most recent read took
    prior,    \* history: `last` as it was before the most recent read ("-" after an arrival)
    sent,     \* ghost: the whole frames delivered so far, while framed
    ncall,    \* ghost: reads made with data buffered, while framed
    framed,   \* ghost: the stream so far is back-to-back whole frames from a frame boundary
    phase,    \* ghost (SpecResync): offset of the read cursor in the device's 5-byte frame cycle
    wide      \* ghost (SpecResync): some frame emitted so far has a payload byte with bit 7 set

vars == <<buf, pre, ret, op, last, prior, sent, ncall, framed, phase, wide>>

Byte == 0..255

Min(a, b) == IF a < b THEN a ELSE b

(***************************************************************************)
(* Python's & and | on non-negative ints (arbitrary precision: no wrap).   *)
(***************************************************************************)
RECURSIVE BitAnd(_, _)
BitAnd(x, y) ==
    IF x = 0 \/ y = 0 THEN 0
    ELSE (IF x % 2 = 1 /\ y % 2 = 1 THEN 1 ELSE 0) + 2 * BitAnd(x \div 2, y \div 2)

RECURSIVE BitOr(_, _)
BitOr(x, y) ==
    IF x = 0 THEN y
    ELSE IF y = 0 THEN x
    ELSE (IF x % 2 = 1 \/ y % 2 = 1 THEN 1 ELSE 0) + 2 * BitOr(x \div 2, y \div 2)

\* x << 1
Shl1(x) == 2 * x

(***************************************************************************)
(* The outcomes of one read of `values`: None, a PulseOximeterValues, or   *)
(* an exception escaping the property.                                     *)
(***************************************************************************)
None == <<>>

Some(v) == <<v>>

IndexError == [exception |-> "IndexError"]

PulseOximeterValues(valid, spo2, pulse_rate, pleth, finger_present) ==
    [valid |-> valid, spo2 |-> spo2, pulse_rate |-> pulse_rate,
     pleth |-> pleth, finger_present |-> finger_present]

(***************************************************************************)
(* The transport's read(n): up to n bytes from the front of the buffer,    *)
(* fewer (possibly none) when fewer are buffered; never blocks.            *)
(***************************************************************************)
ReadData(b, n) == SubSeq(b, 1, Min(n, Len(b)))

ReadRest(b, n) == SubSeq(b, Min(n, Len(b)) + 1, Len(b))

(***************************************************************************)
(* The field extraction of `values`, lines 108-145.  `data` is the body,   *)
(* data[0..3] in the source being data[1..4] here.                         *)
(***************************************************************************)
HeaderSync_Bit6(header) == ~(BitAnd(header, 64) = 0)

HeaderSync_Always(header) == TRUE

\* line 109: not (header & 0x80 == 0)
HeaderSync(header) == ~(BitAnd(header, 128) = 0)

BodyComplete_NonEmpty(data) == ~(data = <<>>)

\* line 114: not (not data or len(data) != 4)
BodyComplete(data) == ~(data = <<>> \/ Len(data) # 4)

\* line 133
Pleth(data) == data[1]

\* line 136: not bool(data[1] & 0x10)
FingerPresent(data) == ~(BitAnd(data[2], 16) # 0)

PulseRate_NoShift(data) == BitOr(data[3], BitAnd(data[2], 64))

PulseRate_Plus(data) == data[3] + Shl1(BitAnd(data[2], 64))

\* line 140: data[2] | (data[1] & 0x40) << 1   (<< binds tighter than |)
PulseRate(data) == BitOr(data[3], Shl1(BitAnd(data[2], 64)))

\* line 143
Spo2(data) == data[4]

Valid_Inverted(spo2) == spo2 = 127

\* line 145
Valid(spo2) == spo2 # 127

\* lines 133-153; indexing past the end of data raises IndexError
Decode(data) ==
    IF Len(data) < 4 THEN Some(IndexError)
    ELSE Some(PulseOximeterValues(Valid(Spo2(data)), Spo2(data), PulseRate(data),
                                  Pleth(data), FingerPresent(data)))

(***************************************************************************)
(* One read of `values` on buffer b, lines 103-153: what it returns, what  *)
(* it leaves buffered, and which return statement it took.                 *)
(***************************************************************************)
Outcome(r, b, k) == [ret |-> r, buf |-> b, kind |-> k]

\* A variant that pushes a truncated frame back instead of discarding it.
ValuesResult_KeepPartial(b) ==
    LET first_byte == ReadData(b, 1)
        b1 == ReadRest(b, 1)
    IN  IF first_byte = <<>> THEN Outcome(None, b1, "empty")
        ELSE IF ~HeaderSync(first_byte[1]) THEN Outcome(None, b1, "unsync")
        ELSE LET data == ReadData(b1, 4)
                 b2 == ReadRest(b1, 4)
             IN  IF ~BodyComplete(data) THEN Outcome(None, b, "short")
                 ELSE Outcome(Decode(data), b2, "frame")

\* A variant without the `if not first_byte` test of line 106.
ValuesResult_NoEmptyTest(b) ==
    LET first_byte == ReadData(b, 1)
        b1 == ReadRest(b, 1)
    IN  IF first_byte = <<>> THEN Outcome(Some(IndexError), b1, "empty")
        ELSE IF ~HeaderSync(first_byte[1]) THEN Outcome(None, b1, "unsync")
        ELSE LET data == ReadData(b1, 4)
                 b2 == ReadRest(b1, 4)
             IN  IF ~BodyComplete(data) THEN Outcome(None, b2, "short")
                 ELSE Outcome(Decode(data), b2, "frame")

\* A variant that reads the whole 5-byte frame again after the header.
ValuesResult_ReadFive(b) ==
    LET first_byte == ReadData(b, 1)
        b1 == ReadRest(b, 1)
    IN  IF first_byte = <<>> THEN Outcome(None, b1, "empty")
        ELSE IF ~HeaderSync(first_byte[1]) THEN Outcome(None, b1, "unsync")
        ELSE LET data == ReadData(b1, 5)
                 b2 == ReadRest(b1, 5)
             IN  IF Len(data) < 4 THEN Outcome(None, b2, "short")
                 ELSE Outcome(Decode(data), b2, "frame")

ValuesResult(b) ==
    LET first_byte == ReadData(b, 1)                              \* line 103
        b1 == ReadRest(b, 1)
    IN  IF first_byte = <<>> THEN Outcome(None, b1, "empty")      \* lines 106-107
        ELSE IF ~HeaderSync(first_byte[1])                        \* lines 108-109
                 THEN Outcome(None, b1, "unsync")                 \* line 111
        ELSE LET data == ReadData(b1, 4)                          \* line 113
                 b2 == ReadRest(b1, 4)
             IN  IF ~BodyComplete(data)                           \* line 114
                     THEN Outcome(None, b2, "short")              \* line 115
                 ELSE Outcome(Decode(data), b2, "frame")          \* lines 133-153

\* The property read as a step of the program.
Values ==
    LET r == ValuesResult(buf)
    IN  /\ buf' = r.buf
        /\ ret' = r.ret
        /\ pre' = buf
        /\ op' = "values"
        /\ prior' = last
        /\ last' = r.kind

(***************************************************************************)
(* Spec: the service on a transport that receives arbitrary bytes one at a *)
(* time (Arrive) or, while the stream is still well framed, whole frames   *)
(* (SendFrame); the caller reads `values` at any time (Call).              *)
(***************************************************************************)
MaxBuf == 6

MaxFrames == 3

\* Representative bytes: 0x00, 0x50 (pulse high bit and finger-absent bit),
\* 0x7F (the invalid SpO2), 0x80 (bare sync bit), 0xC8 (sync bit, 200).
Bytes == {0, 80, 127, 128, 200}

\* Well-formed frames over Bytes: header with bit 7 set, any payload.
Frames == {<<128, 0, 80, 127, 127>>, <<200, 128, 0, 200, 0>>, <<128, 127, 0, 80, 80>>}

Init ==
    /\ buf = <<>>
    /\ pre = <<>>
    /\ ret = None
    /\ op = "init"
    /\ last = "-"
    /\ prior = "-"
    /\ sent = <<>>
    /\ ncall = 0
    /\ framed = TRUE
    /\ phase = 0
    /\ wide = FALSE

Arrive(b) ==
    /\ Len(buf) < MaxBuf
    /\ buf' = Append(buf, b)
    /\ pre' = buf
    /\ ret' = None
    /\ op' = "arrive"
    /\ prior' = "-"
    /\ framed' = FALSE
    /\ sent' = <<>>
    /\ ncall' = 0
    /\ UNCHANGED <<last, phase, wide>>

SendFrame(f) ==
    /\ framed
    /\ Len(sent) < MaxFrames
    /\ buf' = buf \o f
    /\ sent' = Append(sent, f)
    /\ pre' = buf
    /\ ret' = None
    /\ op' = "arrive"
    /\ prior' = "-"
    /\ UNCHANGED <<last, ncall, framed, phase, wide>>

Call ==
    /\ Values
    /\ ncall' = IF framed /\ buf # <<>> THEN ncall + 1 ELSE ncall
    /\ UNCHANGED <<sent, framed, phase, wide>>

ArriveAny == \E b \in Bytes : Arrive(b)

SendAny == \E f \in Frames : SendFrame(f)

Next == ArriveAny \/ SendAny \/ Call

Spec == Init /\ [][Next]_vars

(***************************************************************************)
(* The decode contract written out independently of the code above: by     *)
(* arithmetic on the bytes of the buffer b (b[1] the header candidate).    *)
(***************************************************************************)
ExpectRecord(f) ==
    [valid |-> f[5] # 127,
     spo2 |-> f[5],
     pulse_rate |-> f[4] + (IF f[4] < 128 /\ (f[3] \div 64) % 2 = 1 THEN 128 ELSE 0),
     pleth |-> f[2],
     finger_present |-> (f[3] \div 16) % 2 = 0]

ExpectRet(b) == IF Len(b) >= 5 /\ b[1] >= 128 THEN Some(ExpectRecord(b)) ELSE None

ExpectUsed(b) ==
    IF b = <<>> THEN 0
    ELSE IF b[1] < 128 THEN 1
    ELSE IF Len(b) < 5 THEN Len(b)
    ELSE 5

Drop(b, n) == SubSeq(b, n + 1, Len(b))

RECURSIVE Flatten(_)
Flatten(fs) == IF fs = <<>> THEN <<>> ELSE Head(fs) \o Flatten(Tail(fs))

RecordType ==
    [valid : BOOLEAN, spo2 : Byte, pulse_rate : Byte, pleth : Byte,
     finger_present : BOOLEAN]

(***************************************************************************)
(* C2: a read of `values` returns either None or a PulseOximeterValues and *)
(* never raises; it returns None exactly when nothing is buffered, or the  *)
(* first byte has bit 7 clear, or the 4-byte body read comes back short;   *)
(* otherwise it returns a record, also when the record's valid is False.   *)
(***************************************************************************)
C2_TwoOutcomes ==
    op = "values" =>
        /\ ret = None \/ (Len(ret) = 1 /\ ret[1] \in RecordType)
        /\ ret = None <=> (pre = <<>> \/ pre[1] < 128 \/ Len(pre) - 1 < 4)

C2_Witness ==
    /\ op = "values"
    /\ Len(pre) >= 5
    /\ ret # None
    /\ ret[1] \in RecordType
    /\ ~ret[1].valid

(***************************************************************************)
(* C3: when the first buffered byte has bit 7 clear, whatever follows it,  *)
(* a read returns None and consumes exactly that one byte: the bytes after *)
(* it stay buffered unchanged, the next read starting at the first of them.*)
(***************************************************************************)
C3_UnsyncDropsOneByte ==
    (op = "values" /\ pre # <<>> /\ pre[1] < 128) =>
        (ret = None /\ buf = Tail(pre))

C3_Witness ==
    /\ op = "values"
    /\ Len(pre) >= 6
    /\ pre[1] < 128
    /\ pre[2] >= 128
    /\ ret = None
    /\ buf = Tail(pre)

(***************************************************************************)
(* C4: when the first buffered byte has bit 7 set and k < 4 bytes follow,  *)
(* a read returns None and discards the header and all k body bytes;       *)
(* nothing is kept across calls, so the read that follows a truncated one  *)
(* treats the first byte then buffered as a fresh header candidate instead *)
(* of completing the truncated frame.                                      *)
(***************************************************************************)
C4_TruncatedDiscarded ==
    /\ (op = "values" /\ pre # <<>> /\ pre[1] >= 128 /\ Len(pre) - 1 < 4) =>
           (ret = None /\ buf = <<>> /\ last = "short")
    /\ (op = "values" /\ prior = "short") =>
           (ret = ExpectRet(pre) /\ buf = Drop(pre, ExpectUsed(pre)))

\* The header alone was read and discarded, its 4 body bytes arrived
\* afterwards, and the next read dropped only the first of them.
C4_Witness ==
    /\ op = "values"
    /\ prior = "short"
    /\ Len(pre) = 4
    /\ pre[1] < 128
    /\ ret = None
    /\ buf = Tail(pre)

(***************************************************************************)
(* C5: with nothing buffered a read returns None and consumes nothing, any *)
(* number of times in a row; bytes arriving afterwards are decoded as if   *)
(* the empty reads had not happened.                                       *)
(***************************************************************************)
C5_EmptyReadIdempotent ==
    /\ (op = "values" /\ pre = <<>>) => (ret = None /\ buf = <<>> /\ last = "empty")
    /\ (op = "values" /\ prior = "empty") =>
           (ret = ExpectRet(pre) /\ buf = Drop(pre, ExpectUsed(pre)))

\* Two reads in a row found the buffer empty.
C5_Witness ==
    /\ op = "values"
    /\ prior = "empty"
    /\ last = "empty"
    /\ pre = <<>>
    /\ ret = None
    /\ buf = <<>>

(***************************************************************************)
(* C10: every read consumes a contiguous run of bytes from the front of    *)
(* the buffer and nothing else: 0 when empty, 1 on a header with bit 7     *)
(* clear, 1+k on a body truncated to k < 4 bytes, exactly 5 when a record  *)
(* is returned.  So when the stream is n back-to-back well-formed frames   *)
(* from a frame boundary, each buffered in full before it is read, the     *)
(* i-th such read returns the decode of the i-th frame.                    *)
(***************************************************************************)
C10_ContiguousConsumption ==
    op = "values" =>
        /\ Len(pre) - Len(buf) = ExpectUsed(pre)
        /\ buf = Drop(pre, Len(pre) - Len(buf))
        /\ ret # None => Len(pre) - Len(buf) = 5
        /\ (framed /\ pre # <<>>) =>
               /\ ncall \in 1..Len(sent)
               /\ ret = Some(ExpectRecord(sent[ncall]))
               /\ buf = Flatten(SubSeq(sent, ncall + 1, Len(sent)))

C10_Witness ==
    /\ op = "values"
    /\ framed
    /\ ncall = MaxFrames
    /\ Len(sent) = MaxFrames
    /\ sent[1] # sent[2]
    /\ sent[2] # sent[3]
    /\ ret = Some(ExpectRecord(sent[MaxFrames]))
    /\ buf = <<>>

(***************************************************************************)
(* SpecDecode: the decode as a function of one fully buffered frame.  The  *)
(* initial buffer sweeps b1 x b2 (the two bytes pulse_rate combines), the  *)
(* header x b0, and b3 with the flag bits of b1, each over the whole byte  *)
(* range; the only step is the read.                                       *)
(***************************************************************************)
DecodeInput(b) ==
    \/ \E b1 \in Byte, b2 \in Byte : b = <<128, 50, b1, b2, 98>>
    \/ \E h \in 128..255, b0 \in Byte : b = <<h, b0, 0, 70, 98>>
    \/ \E b1 \in {0, 16, 47, 64, 127}, b3 \in Byte : b = <<128, 50, b1, 70, b3>>

InitDecode ==
    /\ pre = <<>>
    /\ ret = None
    /\ op = "init"
    /\ last = "-"
    /\ prior = "-"
    /\ sent = <<>>
    /\ ncall = 0
    /\ framed = FALSE
    /\ phase = 0
    /\ wide = FALSE
    /\ DecodeInput(buf)

NextDecode == Call

SpecDecode == InitDecode /\ [][NextDecode]_vars

C6_Spo2Range ==
    (op = "values" /\ ret # None) => ret[1].spo2 \in (0..100) \cup {127}

(***************************************************************************)
(* C7: in every record returned, pulse_rate is in 0..255, its low 7 bits   *)
(* are the low 7 bits of b2, and its bit 7 is set exactly when bit 6 of b1 *)
(* or bit 7 of b2 is set.                                                  *)
(***************************************************************************)
C7_PulseRateRange ==
    (op = "values" /\ ret # None) =>
        LET pulse_rate == ret[1].pulse_rate
            b1 == pre[3]
            b2 == pre[4]
        IN  /\ pulse_rate \in 0..255
            /\ pulse_rate % 128 = b2 % 128
            /\ pulse_rate >= 128 <=> ((b1 \div 64) % 2 = 1 \/ b2 >= 128)

\* Bit 6 of b1 and bit 7 of b2 both set: the two sources of bit 7 overlap.
C7_Witness ==
    /\ op = "values"
    /\ ret # None
    /\ pre[3] = 64
    /\ pre[4] = 255
    /\ ret[1].pulse_rate = 255

StreamCap == 5

WidePayload(f) == \E i \in 2..5 : f[i] >= 128

InitResync ==
    /\ \E f \in Frames, p \in 0..4 :
           /\ buf = SubSeq(f, 6 - p, 5)
           /\ phase = (5 - p) % 5
           /\ wide = WidePayload(f)
    /\ pre = <<>>
    /\ ret = None
    /\ op = "init"
    /\ last = "-"
    /\ prior = "-"
    /\ sent = <<>>
    /\ ncall = 0
    /\ framed = FALSE

Deliver(f) ==
    /\ Len(buf) < StreamCap
    /\ buf' = buf \o f
    /\ wide' = (wide \/ WidePayload(f))
    /\ pre' = buf
    /\ ret' = None
    /\ op' = "arrive"
    /\ prior' = "-"
    /\ UNCHANGED <<last, sent, ncall, framed, phase>>

DeliverAny == \E f \in Frames : Deliver(f)

Poll ==
    /\ Values
    /\ phase' = (phase + (Len(buf) - Len(buf'))) % 5
    /\ UNCHANGED <<sent, ncall, framed, wide>>

NextResync == DeliverAny \/ Poll

SpecResync ==
    InitResync /\ [][NextResync]_vars /\ WF_vars(Poll) /\ WF_vars(DeliverAny)

\* The cursor's offset in the frame cycle before the last read.
CursorBefore == (phase + 5 - ((Len(pre) - Len(buf)) % 5)) % 5

Record == op = "values" /\ ret # None

\* The last read returned the decode of a true frame, read from its boundary.
AlignedRecord ==
    /\ Record
    /\ CursorBefore = 0
    /\ Len(pre) >= 5
    /\ ret = Some(ExpectRecord(pre))

(***************************************************************************)
(* C9, as stated: with any prefix and frames of arbitrary payload bytes    *)
(* 0..255, repeated reads eventually return a record decoded from a true   *)
(* frame boundary, and from then on every returned record is.              *)
(***************************************************************************)
C9_RealignsAnyPayload ==
    /\ <>AlignedRecord
    /\ [](AlignedRecord => [](Record => AlignedRecord))

(***************************************************************************)
(* C9, amended: when every payload byte of the stream has bit 7 clear      *)
(* (0..127), repeated reads eventually return a record decoded from a true *)
(* frame boundary; and, for any payload, once one has been returned every  *)
(* later returned record is decoded from a true frame.                     *)
(***************************************************************************)
C9_RealignsNarrowPayload ==
    /\ <>(wide \/ AlignedRecord)
    /\ [](AlignedRecord => [](Record => AlignedRecord))

\* The tail of a missed frame was dropped byte by byte and the read after
\* the last dropped byte returned the next frame.
C9_Witness ==
    /\ AlignedRecord
    /\ prior = "unsync"
    /\ ~wide
    /\ pre[2] # 0

====
